---- MODULE Spec2Model ----
(***************************************************************************)
(* prometheus-dirsize-exporter: the budgeted directory walker              *)
(* (BudgetedDirInfoWalker in prometheus_dirsize_exporter/exporter.py) and  *)
(* the scan cycle of main() that drives it.                                *)
(*                                                                         *)
(* One scan cycle is modelled as a state machine.  Every filesystem call   *)
(* the walker makes is one step; between two steps the environment may     *)
(* delete entries, and a call may fail with an OS error.  Time is the      *)
(* monotonic clock in nanoseconds, read by do_iops_action.                 *)
(***************************************************************************)
EXTENDS Integers, Sequences, FiniteSets, TLC

VARIABLES
    kind,                       \* filesystem: node -> "dir" | "file" | "link"
    target,                     \* filesystem: link node -> node it points to
    mtime,                      \* filesystem: node -> st_mtime
    exists,                     \* filesystem: node -> present on disk
    iops_budget,                \* self.iops_budget
    since_reset,                \* time.monotonic_ns() - self._last_iops_reset_time
                                \*   at the latest reading of the clock
    io_calls_since_last_reset,  \* self._io_calls_since_last_reset
    opAges,                     \* ages, at the latest reading of the clock, of the
                                \*   most recent calls the limiter let run (a history
                                \*   kept while the limiter is driven on its own)
    lastCheck,                  \* the latest call of do_iops_action: did it wait, for
                                \*   how long, the counter when the wrapped call
                                \*   started, did the call run and return (a history
                                \*   kept while the limiter is driven on its own)
    gen,                        \* frame of the generator get_subdirs_info
    stack,                      \* call stack of get_dir_info frames, innermost last
    yielded,                    \* items the generator has yielded so far, in order
    exc,                        \* exception that left get_subdirs_info / main ("none")
    lastOp,                     \* the latest filesystem call: name, path, via the limiter?
    lastRaise                   \* the latest filesystem call that raised: name, path, error

fsvars  == <<kind, target, mtime, exists>>
limvars == <<iops_budget, since_reset, io_calls_since_last_reset, opAges, lastCheck>>
runvars == <<gen, stack, yielded, exc, lastOp, lastRaise>>
vars    == <<kind, target, mtime, exists, iops_budget, since_reset,
             io_calls_since_last_reset, opAges, lastCheck, gen, stack, yielded,
             exc, lastOp, lastRaise>>

-----------------------------------------------------------------------------
(* Program constants and bounds *)

ONE_S_IN_NS == 1000000000

\* scans are explored with budgets 1..MaxBudget
MaxBudget == 1

\* the limiter on its own is explored with budgets -MaxNegBudget..MaxLimiterBudget
MaxLimiterBudget == 2

MaxNegBudget == 1

\* modification times are drawn from 1..MaxMTime
MaxMTime == 3

\* the kernel refuses (ELOOP) a path resolution that follows more links than this
MaxSymlinks == 1

\* at most this many entries are deleted while a scan runs
MaxDeletes == 1

\* amounts by which the monotonic clock may have advanced between two readings
Deltas == {0, ONE_S_IN_NS \div 2}

Budgets == 1..MaxBudget

LimiterBudgets == (0 - MaxNegBudget)..MaxLimiterBudget

-----------------------------------------------------------------------------
(* The filesystem.  Node 0 is parent_dir; Parent[n] is the directory that  *)
(* holds entry n.  An entry's name is its node number, a path is the       *)
(* sequence of names below parent_dir.                                     *)

Parent == <<0, 0, 0, 2, 2, 4>>

Nodes == 0..Len(Parent)

Entries == 1..Len(Parent)

Kinds == {"dir", "file", "link"}

\* st_size of a node: distinct powers of two, so that a sum tells its terms
Size(n) == 2 ^ n

RECURSIVE SortedSeq(_)
SortedSeq(s) ==
    IF s = {} THEN <<>>
    ELSE LET m == CHOOSE x \in s : \A y \in s : x <= y
         IN <<m>> \o SortedSeq(s \ {m})

Range(s) == {s[i] : i \in 1..Len(s)}

\* the set of nodes below n
RECURSIVE Below(_)
Below(n) == LET ch == {c \in Entries : Parent[c] = n}
            IN ch \cup UNION {Below(c) : c \in ch}

\* indices of the path components at which a link is followed
LinksFollowed(path, follow) ==
    {i \in 1..Len(path) : kind[path[i]] = "link" /\ (i < Len(path) \/ follow)}

\* Path resolution as the kernel does it: the node a path names, or an errno
Resolve(path, follow) ==
    LET links == LinksFollowed(path, follow)
    IN  IF \E i \in 1..Len(path) :
              \/ ~exists[path[i]]
              \/ i \in links /\ ~exists[target[path[i]]]
        THEN [err |-> "ENOENT", node |-> 0]
        ELSE IF Cardinality(links) > MaxSymlinks
        THEN [err |-> "ELOOP", node |-> 0]
        ELSE IF Len(path) = 0
        THEN [err |-> "none", node |-> 0]
        ELSE [err |-> "none",
              node |-> IF Len(path) \in links THEN target[path[Len(path)]]
                       ELSE path[Len(path)]]

\* os.stat(path, follow_symlinks=follow) on a healthy filesystem
os_stat(path, follow) ==
    LET r == Resolve(path, follow)
    IN  IF r.err # "none" THEN [err |-> r.err, st_size |-> 0, st_mtime |-> 0, st_kind |-> "none"]
        ELSE [err |-> "none", st_size |-> Size(r.node), st_mtime |-> mtime[r.node],
              st_kind |-> kind[r.node]]

\* os.listdir(path) on a healthy filesystem: the names in the directory
os_listdir(path) ==
    LET r == Resolve(path, TRUE)
    IN  IF r.err # "none" THEN [err |-> r.err, names |-> <<>>]
        ELSE IF kind[r.node] # "dir" THEN [err |-> "ENOTDIR", names |-> <<>>]
        ELSE [err |-> "none",
              names |-> SortedSeq({c \in Entries : Parent[c] = r.node /\ exists[c]})]

\* os.path.isfile / isdir follow links and answer False on any OSError
os_path_isfile(path) == LET s == os_stat(path, TRUE) IN s.err = "none" /\ s.st_kind = "file"

os_path_isdir(path) == LET s == os_stat(path, TRUE) IN s.err = "none" /\ s.st_kind = "dir"

\* os.path.islink uses lstat and answers False on any OSError
os_path_islink(path) == LET s == os_stat(path, FALSE) IN s.err = "none" /\ s.st_kind = "link"

\* errors a call may also fail with, whatever the state of the tree: a stale
\* NFS handle or an I/O error for a stat, and for a listdir also a directory
\* that may not be read
StatFaults == {"ESTALE", "EIO"}

ListdirFaults == {"EACCES", "ESTALE", "EIO"}

Errno(e) ==
    CASE e = "ENOENT" -> 2
      [] e = "EIO" -> 5
      [] e = "EACCES" -> 13
      [] e = "ENOTDIR" -> 20
      [] e = "ELOOP" -> 40
      [] e = "ESTALE" -> 116
      [] OTHER -> 0

\* Python's exception classes: every errno above is an OSError; ENOENT is
\* raised as FileNotFoundError, EACCES as PermissionError
IsOSError(e) == e \in {"ENOENT", "EIO", "EACCES", "ENOTDIR", "ELOOP", "ESTALE"}

IsFileNotFoundError(e) == e = "ENOENT"

IsPermissionError(e) == e = "EACCES"

-----------------------------------------------------------------------------
(* BudgetedDirInfoWalker.do_iops_action, lines 33-48: the budget check that *)
(* precedes the wrapped call.  The code uses the clock and                  *)
(* _last_iops_reset_time only through their difference (lines 33 and 44),   *)
(* which is what since_reset holds; assigning the clock to                  *)
(* _last_iops_reset_time (lines 37, 48) makes it 0.  d1..d4 are the amounts *)
(* by which the clock has advanced at the four readings of                  *)
(* time.monotonic_ns() (lines 33, 37, 44, 48); a reading that is not taken  *)
(* advances nothing.  The wait is kept in nanoseconds, before the division  *)
(* of line 45; time.sleep raises ValueError for a negative length.          *)

BudgetCheck(d1, d2, d3, d4) ==
    LET e1      == since_reset + d1
        expired == e1 > ONE_S_IN_NS
        calls1  == IF expired THEN 0 ELSE io_calls_since_last_reset
        e2      == IF expired THEN 0 ELSE e1
        over    == calls1 > iops_budget
        e3      == IF over THEN e2 + d3 ELSE e2
        wait    == ONE_S_IN_NS - e3 + 1
        slept   == over /\ wait >= 0
    IN  [taken  |-> (expired \/ d2 = 0) /\ (over \/ d3 = 0) /\ (slept \/ d4 = 0),
         err    |-> IF over /\ wait < 0 THEN "ValueError" ELSE "none",
         waited |-> over,
         wait   |-> IF over THEN wait ELSE 0,
         calls  |-> IF slept THEN 0 ELSE calls1,
         since  |-> IF slept THEN 0 ELSE e3,
         passed |-> d1 + d2 + d3 + (IF slept THEN wait + d4 ELSE 0)]

\* the budget checks the clock allows
Readings ==
    {r \in {BudgetCheck(d[1], d[2], d[3], d[4]) : d \in Deltas \X Deltas \X Deltas \X Deltas} :
        r.taken}

\* ages grow with the clock; an age of a second or more is kept as a second
Older(ages, passed) ==
    [i \in 1..Len(ages) |->
        IF passed >= ONE_S_IN_NS - ages[i] THEN ONE_S_IN_NS ELSE ages[i] + passed]

\* the most recent MaxLimiterBudget + 1 calls
Recent(s) == IF Len(s) > MaxLimiterBudget + 1 THEN Tail(s) ELSE s

NoCheck == [ran |-> FALSE, returned |-> FALSE, waited |-> FALSE, wait |-> 0, calls |-> 0]

\* do_iops_action, lines 50-52, after budget check L: the wrapped call ran
\* (executed) and came back with a value (returned) or raised (line 51 skipped)
Account(L, executed, returned) ==
    /\ since_reset' = L.since
    /\ io_calls_since_last_reset' = L.calls + (IF returned THEN 1 ELSE 0)
    /\ opAges' = IF gen.pc # "idle" THEN opAges
                 ELSE IF executed THEN Recent(Append(Older(opAges, L.passed), 0))
                 ELSE Older(opAges, L.passed)
    /\ lastCheck' = IF gen.pc # "idle" THEN lastCheck
                    ELSE [ran |-> executed, returned |-> returned, waited |-> L.waited,
                          wait |-> L.wait, calls |-> L.calls]
    /\ UNCHANGED iops_budget

-----
(* Frames and records *)

\* a DirInfo (processing_time, a wall-clock duration, is left out); path is
\* os.path.basename of the scanned path.
DirInfo(path, size, latest, oldest, count) ==
    [none |-> FALSE, path |-> path, size |-> size, latest_mtime |-> latest,
     oldest_mtime |-> oldest, entries_count |-> count]

\* Python's None, returned by get_dir_info for a vanished directory
None == [none |-> TRUE, path |-> 0, size |-> 0, latest_mtime |-> 0,
         oldest_mtime |-> 0, entries_count |-> 0]

\* os.path.abspath(os.path.join(path, c))
ChildPath(path, c) == Append(path, c)

\* the frame of get_dir_info(path) once its own stat has succeeded.
\* stat_ok, sub_entries and seen are history fields: the number of file stats
\* that succeeded, the sum of the entry counts folded in from subdirectories,
\* and the set of modification times compared with the two trackers.
NewFrame(path, st) ==
    [path |-> path, pc |-> "listdir", self_size |-> st.st_size,
     self_mtime |-> st.st_mtime, children |-> <<>>, idx |-> 1,
     files |-> <<>>, dirs |-> <<>>, total_size |-> 0, latest_mtime |-> 0,
     oldest_mtime |-> 0, entries_count |-> 0, stat_ok |-> 0, sub_entries |-> 0,
     seen |-> {}]

\* InitTotals without the "+ 1" of line 81: the directory does not count itself
InitTotals_NoSelf(f) ==
    [f EXCEPT !.total_size = f.self_size,
              !.latest_mtime = f.self_mtime,
              !.oldest_mtime = f.self_mtime,
              !.entries_count = Len(f.files),
              !.seen = {f.self_mtime}]

\* lines 78-81: the running totals start from the directory's own stat
InitTotals(f) ==
    [f EXCEPT !.total_size = f.self_size,
              !.latest_mtime = f.self_mtime,
              !.oldest_mtime = f.self_mtime,
              !.entries_count = Len(f.files) + 1,
              !.seen = {f.self_mtime}]

\* FoldFile with the assignment of line 93 made to the wrong variable
FoldFile_WrongTarget(f, st) ==
    [f EXCEPT !.total_size = f.total_size + st.st_size,
              !.oldest_mtime = IF f.latest_mtime < st.st_mtime \/ f.oldest_mtime > st.st_mtime
                               THEN st.st_mtime ELSE f.oldest_mtime,
              !.stat_ok = f.stat_ok + 1,
              !.seen = f.seen \cup {st.st_mtime}]

\* lines 91-95: fold one file's stat into the totals
FoldFile(f, st) ==
    [f EXCEPT !.total_size = f.total_size + st.st_size,
              !.latest_mtime = IF f.latest_mtime < st.st_mtime THEN st.st_mtime
                               ELSE f.latest_mtime,
              !.oldest_mtime = IF f.oldest_mtime > st.st_mtime THEN st.st_mtime
                               ELSE f.oldest_mtime,
              !.stat_ok = f.stat_ok + 1,
              !.seen = f.seen \cup {st.st_mtime}]

\* FoldDir with line 107-108 comparing and taking the subdirectory's oldest_mtime
FoldDir_UsesOldest(f, info) ==
    IF info.none THEN f
    ELSE [f EXCEPT !.total_size = f.total_size + info.size,
                   !.entries_count = f.entries_count + info.entries_count,
                   !.latest_mtime = IF f.latest_mtime < info.latest_mtime
                                    THEN info.latest_mtime ELSE f.latest_mtime,
                   !.oldest_mtime = IF f.oldest_mtime > info.oldest_mtime
                                    THEN info.oldest_mtime ELSE f.oldest_mtime,
                   !.sub_entries = f.sub_entries + info.entries_count,
                   !.seen = f.seen \cup {info.latest_mtime}]

\* lines 99-108: fold the result of a subdirectory's scan into the totals
FoldDir(f, info) ==
    IF info.none THEN f
    ELSE [f EXCEPT !.total_size = f.total_size + info.size,
                   !.entries_count = f.entries_count + info.entries_count,
                   !.latest_mtime = IF f.latest_mtime < info.latest_mtime
                                    THEN info.latest_mtime ELSE f.latest_mtime,
                   !.oldest_mtime = IF f.oldest_mtime > info.latest_mtime
                                    THEN info.latest_mtime ELSE f.oldest_mtime,
                   !.sub_entries = f.sub_entries + info.entries_count,
                   !.seen = f.seen \cup {info.latest_mtime}]

\* lines 110-117: the record get_dir_info returns
Result(f) ==
    DirInfo(f.path[Len(f.path)], f.total_size, f.latest_mtime, f.oldest_mtime,
            f.entries_count)

\* Control passes through the comprehensions and loops of get_dir_info
\* (lines 70-76, 83, 97) until the next filesystem call or the return.
AfterDirs(f) ==
    IF f.pc = "recurse" /\ f.idx > Len(f.dirs) THEN [f EXCEPT !.pc = "return"] ELSE f

AfterFiles(f) ==
    IF f.pc = "statfile" /\ f.idx > Len(f.files)
    THEN AfterDirs([f EXCEPT !.pc = "recurse", !.idx = 1]) ELSE f

AfterIsdir(f) ==
    IF f.pc = "isdir" /\ f.idx > Len(f.children)
    THEN AfterFiles(InitTotals([f EXCEPT !.pc = "statfile", !.idx = 1])) ELSE f

AfterIsfile(f) ==
    IF f.pc = "isfile" /\ f.idx > Len(f.children)
    THEN AfterIsdir([f EXCEPT !.pc = "isdir", !.idx = 1]) ELSE f

Advance(f) == AfterDirs(AfterFiles(AfterIsdir(AfterIsfile(f))))

\* the same for the comprehension of get_subdirs_info (line 126)
AdvanceGen(g) ==
    IF g.pc = "isdir" /\ g.idx > Len(g.children)
    THEN [g EXCEPT !.pc = "scan", !.idx = 1] ELSE g

Top == stack[Len(stack)]

SetTop(f) == [stack EXCEPT ![Len(stack)] = f]

NoOp == [op |-> "none", path |-> <<>>, budgeted |-> TRUE]

NoRaise == [op |-> "none", path |-> <<>>, err |-> "none", nyielded |-> 0]

-----------------------------------------------------------------------------
(* The except clauses of get_subdirs_info, lines 130-149, tried in order:   *)
(* "return" ends the generator quietly, "raise" lets the exception out.     *)

\* Handler without the errno test of line 131: every OSError is ignored
Handler_IgnoreAll(e) ==
    IF IsOSError(e) THEN "return" ELSE "raise"

Handler(e) ==
    IF IsOSError(e)
    THEN IF Errno(e) = 116 THEN "return" ELSE "raise"
    ELSE IF IsPermissionError(e)
    THEN IF Errno(e) = 13 THEN "return" ELSE "raise"
    ELSE "raise"

\* an exception e of call op(path) reaches get_subdirs_info: no frame of
\* get_dir_info in between handles it, every one of them is unwound
Propagate(e, op, path) ==
    /\ stack' = <<>>
    /\ lastRaise' = [op |-> op, path |-> path, err |-> e, nyielded |-> Len(yielded)]
    /\ IF Handler(e) = "return"
       THEN gen' = [gen EXCEPT !.pc = "done"] /\ exc' = "none"
       ELSE gen' = [gen EXCEPT !.pc = "raised"] /\ exc' = e
    /\ UNCHANGED yielded

Running == gen.pc \in {"listdir", "isdir", "scan"}

-----------------------------------------------------------------------------
(* Initial states *)

\* the trees scanned: parent_dir holds directories 1, 2, 3; directory 2 holds
\* entry 4 (a file, a directory holding file 6, or a link to directory 2,
\* directory 1 or file 5) and file 5
Trees ==
    {k \in [Nodes -> Kinds] :
        /\ \A n \in {0, 1, 2, 3} : k[n] = "dir"
        /\ k[5] = "file" /\ k[6] = "file"}

Targets(k) ==
    {t \in [Nodes -> Nodes] :
        /\ \A n \in Nodes \ {4} : t[n] = n
        /\ t[4] \in (IF k[4] = "link" THEN {1, 2, 5} ELSE {4})}

MTimes ==
    {m \in [Nodes -> 1..MaxMTime] :
        /\ \A n \in {0, 1, 2, 3, 4} : m[n] = 2
        /\ m[6] = MaxMTime + 1 - m[5]}

\* BudgetedDirInfoWalker.__init__ (lines 17-24) under main (line 182), about
\* to start get_subdirs_info(parent_dir)
Init ==
    /\ kind \in Trees
    /\ target \in Targets(kind)
    /\ mtime \in MTimes
    /\ exists = [n \in Nodes |-> TRUE]
    /\ iops_budget \in Budgets
    /\ since_reset = 0
    /\ io_calls_since_last_reset = 0
    /\ opAges = <<>>
    /\ lastCheck = NoCheck
    /\ gen = [pc |-> "listdir", children |-> <<>>, idx |-> 1, dirs |-> <<>>]
    /\ stack = <<>>
    /\ yielded = <<>>
    /\ exc = "none"
    /\ lastOp = NoOp
    /\ lastRaise = NoRaise

-----------------------------------------------------------------------------
(* The environment *)

\* number of entries removed so far (an entry goes with everything below it)
Deleted ==
    Cardinality({n \in Entries : ~exists[n] /\ (Parent[n] = 0 \/ exists[Parent[n]])})

\* another process removes entry n (unlink, rmdir, or a rename out of the tree)
Delete(n) ==
    /\ Running
    /\ Deleted < MaxDeletes
    /\ exists[n]
    /\ kind[Parent[n]] = "dir"
    /\ exists' = [m \in Nodes |-> exists[m] /\ m \notin ({n} \cup Below(n))]
    /\ UNCHANGED <<kind, target, mtime>>
    /\ UNCHANGED limvars
    /\ UNCHANGED runvars

\* do_iops_action fails in time.sleep (line 46) before the wrapped call runs
SleepRaises(L, path) ==
    /\ Account(L, FALSE, FALSE)
    /\ Propagate(L.err, "sleep", path)
    /\ UNCHANGED lastOp

Budgeted(op, path) == [op |-> op, path |-> path, budgeted |-> TRUE]

Direct(op, path) == [op |-> op, path |-> path, budgeted |-> FALSE]

StatOutcomes == {"none"} \cup StatFaults

ListdirOutcomes == {"none"} \cup ListdirFaults

-----------------------------------------------------------------------------
(* get_subdirs_info, lines 119-129 *)

\* lines 121-124: self.do_iops_action(os.listdir, dir_path)
TopListdir ==
    /\ gen.pc = "listdir"
    /\ \E L \in Readings, flt \in ListdirOutcomes :
         IF L.err # "none" THEN SleepRaises(L, <<>>)
         ELSE LET r == os_listdir(<<>>)
                  e == IF flt # "none" THEN flt ELSE r.err
              IN  /\ lastOp' = Budgeted("listdir", <<>>)
                  /\ IF e # "none"
                     THEN Account(L, TRUE, FALSE) /\ Propagate(e, "listdir", <<>>)
                     ELSE /\ Account(L, TRUE, TRUE)
                          /\ gen' = AdvanceGen([gen EXCEPT !.children = r.names,
                                                           !.pc = "isdir", !.idx = 1])
                          /\ UNCHANGED <<stack, yielded, exc, lastRaise>>
    /\ UNCHANGED fsvars

\* line 126: self.do_iops_action(os.path.isdir, c) for the next child
TopIsdir ==
    /\ gen.pc = "isdir"
    /\ LET c == gen.children[gen.idx]
       IN \E L \in Readings :
            IF L.err # "none" THEN SleepRaises(L, <<c>>)
            ELSE /\ lastOp' = Budgeted("isdir", <<c>>)
                 /\ Account(L, TRUE, TRUE)
                 /\ gen' = AdvanceGen([gen EXCEPT
                        !.dirs = IF os_path_isdir(<<c>>) THEN Append(@, c) ELSE @,
                        !.idx = @ + 1])
                 /\ UNCHANGED <<stack, yielded, exc, lastRaise>>
    /\ UNCHANGED fsvars

\* line 129 with get_dir_info lines 55-60: get_dir_info(c) is called for the
\* next directory and stats it, not through do_iops_action.  When the
\* directory is gone it returns None, which is yielded to main, whose loop
\* body (line 184) fails on None with AttributeError.
TopCall ==
    /\ gen.pc = "scan" /\ stack = <<>> /\ gen.idx <= Len(gen.dirs)
    /\ LET path == <<gen.dirs[gen.idx]>>
       IN \E flt \in StatOutcomes :
            LET st == os_stat(path, TRUE)
                e  == IF flt # "none" THEN flt ELSE st.err
            IN  /\ lastOp' = Direct("stat", path)
                /\ IF e = "none"
                   THEN /\ stack' = <<NewFrame(path, st)>>
                        /\ UNCHANGED <<gen, yielded, exc, lastRaise>>
                   ELSE IF IsFileNotFoundError(e)
                   THEN /\ yielded' = Append(yielded, None)
                        /\ gen' = [gen EXCEPT !.pc = "crashed"]
                        /\ exc' = "AttributeError"
                        /\ lastRaise' = [op |-> "stat", path |-> path, err |-> e,
                                         nyielded |-> Len(yielded)]
                        /\ UNCHANGED stack
                   ELSE Propagate(e, "stat", path)
    /\ UNCHANGED fsvars
    /\ UNCHANGED limvars

\* Yield with the iteration of line 128 advanced twice: a sibling is skipped
Yield_SkipsNext ==
    /\ Len(stack) = 1 /\ Top.pc = "return"
    /\ yielded' = Append(yielded, Result(Top))
    /\ stack' = <<>>
    /\ gen' = [gen EXCEPT !.idx = @ + 2]
    /\ UNCHANGED <<exc, lastOp, lastRaise>>
    /\ UNCHANGED fsvars
    /\ UNCHANGED limvars

\* line 129: the record of a finished top-level scan is yielded to main,
\* whose loop body (lines 184-195) publishes it and asks for the next one
Yield ==
    /\ Len(stack) = 1 /\ Top.pc = "return"
    /\ yielded' = Append(yielded, Result(Top))
    /\ stack' = <<>>
    /\ gen' = [gen EXCEPT !.idx = @ + 1]
    /\ UNCHANGED <<exc, lastOp, lastRaise>>
    /\ UNCHANGED fsvars
    /\ UNCHANGED limvars

\* the loop of line 128 is exhausted: the generator ends, and so does the
\* for loop of main (line 183)
GenReturn ==
    /\ gen.pc = "scan" /\ stack = <<>> /\ gen.idx > Len(gen.dirs)
    /\ gen' = [gen EXCEPT !.pc = "done"]
    /\ UNCHANGED <<stack, yielded, exc, lastOp, lastRaise>>
    /\ UNCHANGED fsvars
    /\ UNCHANGED limvars

-----------------------------------------------------------------------------
(* get_dir_info, lines 54-117 *)

\* lines 63-66: self.do_iops_action(os.listdir, path)
Listdir ==
    /\ stack # <<>> /\ Top.pc = "listdir"
    /\ \E L \in Readings, flt \in ListdirOutcomes :
         IF L.err # "none" THEN SleepRaises(L, Top.path)
         ELSE LET r == os_listdir(Top.path)
                  e == IF flt # "none" THEN flt ELSE r.err
              IN  /\ lastOp' = Budgeted("listdir", Top.path)
                  /\ IF e # "none"
                     THEN Account(L, TRUE, FALSE) /\ Propagate(e, "listdir", Top.path)
                     ELSE /\ Account(L, TRUE, TRUE)
                          /\ stack' = SetTop(Advance([Top EXCEPT !.children = r.names,
                                                                !.pc = "isfile", !.idx = 1]))
                          /\ UNCHANGED <<gen, yielded, exc, lastRaise>>
    /\ UNCHANGED fsvars

\* line 73: self.do_iops_action(os.path.isfile, c)
Isfile ==
    /\ stack # <<>> /\ Top.pc = "isfile"
    /\ LET c == ChildPath(Top.path, Top.children[Top.idx])
       IN \E L \in Readings :
            IF L.err # "none" THEN SleepRaises(L, c)
            ELSE /\ lastOp' = Budgeted("isfile", c)
                 /\ Account(L, TRUE, TRUE)
                 /\ stack' = SetTop(Advance(
                        IF os_path_isfile(c)
                        THEN [Top EXCEPT !.files = Append(@, Top.children[Top.idx]),
                                         !.idx = @ + 1]
                        ELSE [Top EXCEPT !.pc = "islink"]))
                 /\ UNCHANGED <<gen, yielded, exc, lastRaise>>
    /\ UNCHANGED fsvars

\* line 74: self.do_iops_action(os.path.islink, c), when isfile said no
Islink ==
    /\ stack # <<>> /\ Top.pc = "islink"
    /\ LET c == ChildPath(Top.path, Top.children[Top.idx])
       IN \E L \in Readings :
            IF L.err # "none" THEN SleepRaises(L, c)
            ELSE /\ lastOp' = Budgeted("islink", c)
                 /\ Account(L, TRUE, TRUE)
                 /\ stack' = SetTop(Advance(
                        [Top EXCEPT !.files = IF os_path_islink(c)
                                              THEN Append(@, Top.children[Top.idx]) ELSE @,
                                    !.idx = @ + 1,
                                    !.pc = "isfile"]))
                 /\ UNCHANGED <<gen, yielded, exc, lastRaise>>
    /\ UNCHANGED fsvars

\* line 76: self.do_iops_action(os.path.isdir, c)
Isdir ==
    /\ stack # <<>> /\ Top.pc = "isdir"
    /\ LET c == ChildPath(Top.path, Top.children[Top.idx])
       IN \E L \in Readings :
            IF L.err # "none" THEN SleepRaises(L, c)
            ELSE /\ lastOp' = Budgeted("isdir", c)
                 /\ Account(L, TRUE, TRUE)
                 /\ stack' = SetTop(Advance(
                        [Top EXCEPT !.dirs = IF os_path_isdir(c)
                                             THEN Append(@, Top.children[Top.idx]) ELSE @,
                                    !.idx = @ + 1]))
                 /\ UNCHANGED <<gen, yielded, exc, lastRaise>>
    /\ UNCHANGED fsvars

\* lines 83-95: self.do_iops_action(os.stat, f, follow_symlinks=False) for
\* the next file; FileNotFoundError is caught and the file skipped
StatFile ==
    /\ stack # <<>> /\ Top.pc = "statfile"
    /\ LET f == ChildPath(Top.path, Top.files[Top.idx])
       IN \E L \in Readings, flt \in StatOutcomes :
            IF L.err # "none" THEN SleepRaises(L, f)
            ELSE LET st == os_stat(f, FALSE)
                     e  == IF flt # "none" THEN flt ELSE st.err
                 IN  /\ lastOp' = Budgeted("lstat", f)
                     /\ IF e = "none"
                        THEN /\ Account(L, TRUE, TRUE)
                             /\ stack' = SetTop(Advance([FoldFile(Top, st) EXCEPT !.idx = @ + 1]))
                             /\ UNCHANGED <<gen, yielded, exc, lastRaise>>
                        ELSE IF IsFileNotFoundError(e)
                        THEN /\ Account(L, TRUE, FALSE)
                             /\ stack' = SetTop(Advance([Top EXCEPT !.idx = @ + 1]))
                             /\ lastRaise' = [op |-> "lstat", path |-> f, err |-> e,
                                              nyielded |-> Len(yielded)]
                             /\ UNCHANGED <<gen, yielded, exc>>
                        ELSE Account(L, TRUE, FALSE) /\ Propagate(e, "lstat", f)
    /\ UNCHANGED fsvars

\* line 98 with lines 55-60 of the callee: get_dir_info(d) is called for the
\* next subdirectory and stats it, not through do_iops_action; when the
\* directory is gone it returns None and the caller goes on (lines 99-102)
Recurse ==
    /\ stack # <<>> /\ Top.pc = "recurse"
    /\ LET path == ChildPath(Top.path, Top.dirs[Top.idx])
       IN \E flt \in StatOutcomes :
            LET st == os_stat(path, TRUE)
                e  == IF flt # "none" THEN flt ELSE st.err
            IN  /\ lastOp' = Direct("stat", path)
                /\ IF e = "none"
                   THEN /\ stack' = Append(stack, NewFrame(path, st))
                        /\ UNCHANGED <<gen, yielded, exc, lastRaise>>
                   ELSE IF IsFileNotFoundError(e)
                   THEN /\ stack' = SetTop(Advance([FoldDir(Top, None) EXCEPT !.idx = @ + 1]))
                        /\ lastRaise' = [op |-> "stat", path |-> path, err |-> e,
                                         nyielded |-> Len(yielded)]
                        /\ UNCHANGED <<gen, yielded, exc>>
                   ELSE Propagate(e, "stat", path)
    /\ UNCHANGED fsvars
    /\ UNCHANGED limvars

\* lines 110-117 of the callee, then lines 98-108 of the caller: a nested
\* get_dir_info returns its record, which the caller folds into its totals
Return ==
    /\ Len(stack) > 1 /\ Top.pc = "return"
    /\ LET caller == stack[Len(stack) - 1]
       IN stack' = Append(SubSeq(stack, 1, Len(stack) - 2),
                          Advance([FoldDir(caller, Result(Top)) EXCEPT !.idx = @ + 1]))
    /\ UNCHANGED <<gen, yielded, exc, lastOp, lastRaise>>
    /\ UNCHANGED fsvars
    /\ UNCHANGED limvars

-----------------------------------------------------------------------------
(* One scan cycle next to a changing filesystem *)

Next ==
    \/ TopListdir
    \/ TopIsdir
    \/ TopCall
    \/ Yield
    \/ GenReturn
    \/ Listdir
    \/ Isfile
    \/ Islink
    \/ Isdir
    \/ StatFile
    \/ Recurse
    \/ Return
    \/ \E n \in Entries : Delete(n)

Spec == Init /\ [][Next]_vars

-----------------------------------------------------------------------------
(* The limiter on its own: do_iops_action called again and again, with any  *)
(* timing, around a call that returns or raises                             *)

InitLimiter ==
    /\ kind = [n \in Nodes |-> IF n \in {5, 6} THEN "file" ELSE "dir"]
    /\ target = [n \in Nodes |-> n]
    /\ mtime = [n \in Nodes |-> 1]
    /\ exists = [n \in Nodes |-> TRUE]
    /\ iops_budget \in LimiterBudgets
    /\ since_reset = 0
    /\ io_calls_since_last_reset = 0
    /\ opAges = <<>>
    /\ lastCheck = NoCheck
    /\ gen = [pc |-> "idle", children |-> <<>>, idx |-> 1, dirs |-> <<>>]
    /\ stack = <<>>
    /\ yielded = <<>>
    /\ exc = "none"
    /\ lastOp = NoOp
    /\ lastRaise = NoRaise

\* do_iops_action(func), lines 26-52; func returns a value or raises
do_iops_action(returns) ==
    /\ gen.pc = "idle"
    /\ \E L \in Readings :
         IF L.err # "none"
         THEN /\ Account(L, FALSE, FALSE)
              /\ lastRaise' = [op |-> "sleep", path |-> <<>>, err |-> L.err, nyielded |-> 0]
              /\ UNCHANGED lastOp
         ELSE /\ Account(L, TRUE, returns)
              /\ lastOp' = Budgeted("func", <<>>)
              /\ lastRaise' = IF returns THEN NoRaise
                              ELSE [op |-> "func", path |-> <<>>, err |-> "EIO", nyielded |-> 0]
    /\ UNCHANGED <<gen, stack, yielded, exc>>
    /\ UNCHANGED fsvars

NextLimiter ==
    \/ do_iops_action(TRUE)
    \/ do_iops_action(FALSE)

SpecLimiter == InitLimiter /\ [][NextLimiter]_vars

-----------------------------------------------------------------------------
(* Properties *)

Frames == {stack[i] : i \in 1..Len(stack)}

\* the names of the records yielded, in order
YieldedPaths == [i \in 1..Len(yielded) |-> yielded[i].path]

Without(seq, c) == SelectSeq(seq, LAMBDA x : x # c)

\* C1: for a positive budget B, no B + 1 calls let through by the limiter lie
\* within one second: the call B calls before the latest one is at least a
\* second old.
C1_BudgetPerSecond ==
    (iops_budget >= 1 /\ Len(opAges) > iops_budget)
        => opAges[Len(opAges) - iops_budget] >= ONE_S_IN_NS

\* C2: every filesystem call of a scan is made through do_iops_action.
C2_AllCallsBudgeted == lastOp.budgeted

\* C3: a file that vanishes before its stat does not make the scan raise, and
\* the record returned for a directory (one that is itself still there)
\* counts the directory, the files whose stat succeeded and the entries of
\* its subdirectories, nothing else.
C3_VanishedFileNotCounted ==
    /\ (lastRaise.op = "lstat" /\ lastRaise.err = "ENOENT") => gen.pc # "raised"
    /\ \A f \in Frames :
         (f.pc = "return" /\ Resolve(f.path, TRUE).err = "none")
            => f.entries_count = 1 + f.stat_ok + f.sub_entries

\* C4: get_subdirs_info yields DirInfo records only, never None, and main is
\* not stopped by a top-level child that vanished.
C4_NeverYieldsNone ==
    /\ \A i \in 1..Len(yielded) : ~yielded[i].none
    /\ gen.pc # "crashed"

\* C5: when a call on a top-level child (or below it) fails with permission
\* denied, get_subdirs_info raises nothing, and the cycle ends having yielded
\* the records of all other top-level directories, in listing order.
C5_DeniedChildSkipped ==
    (lastRaise.err = "EACCES" /\ Len(lastRaise.path) >= 1)
        => /\ gen.pc # "raised"
           /\ gen.pc = "done" => YieldedPaths = Without(gen.dirs, lastRaise.path[1])

\* C6: when a call on a top-level child (or below it) fails with a stale
\* handle, get_subdirs_info raises nothing, and the cycle ends having yielded
\* the records of all other top-level directories.
C6_StaleChildOnlyExcluded ==
    (lastRaise.err = "ESTALE" /\ Len(lastRaise.path) >= 1)
        => /\ gen.pc # "raised"
           /\ gen.pc = "done" => YieldedPaths = Without(gen.dirs, lastRaise.path[1])

\* C7: a directory that vanishes after its parent listed it, whether its own
\* stat or its listing is the call that misses it, never makes the scan raise.
C7_VanishedDirSkipped ==
    (lastRaise.err = "ENOENT" /\ lastRaise.op \in {"stat", "listdir"}
        /\ Len(lastRaise.path) >= 1)
        => gen.pc # "raised"

\* the three kinds of failure the walker is meant to tolerate
Tolerated(r) ==
    \/ r.err = "ENOENT" /\ r.op \in {"stat", "lstat"}
    \/ Errno(r.err) = 116
    \/ Errno(r.err) = 13

\* C8: an OS error of any other kind, raised by a filesystem call at any
\* depth, leaves get_subdirs_info as that same error, every frame unwound,
\* and nothing is yielded after it.
C8_UnexpectedErrorsPropagate ==
    (IsOSError(lastRaise.err) /\ ~Tolerated(lastRaise))
        => /\ gen.pc = "raised"
           /\ exc = lastRaise.err
           /\ stack = <<>>
           /\ Len(yielded) = lastRaise.nyielded

\* C8 happens: an I/O error three levels down, after a record was yielded
\* and with a sibling still to scan, has ended the cycle
C8_Witness ==
    /\ gen.pc = "raised" /\ exc = "EIO"
    /\ Len(lastRaise.path) >= 3
    /\ Len(yielded) >= 1
    /\ gen.idx < Len(gen.dirs)

\* C9: no entry of a directory is both counted as a file and descended into
\* as a subdirectory.
C9_FileOrDirNotBoth ==
    \A f \in Frames : Range(f.files) \cap Range(f.dirs) = {}

\* the records get_dir_info has returned or is about to return
Returned ==
    {yielded[i] : i \in 1..Len(yielded)} \cup {Result(f) : f \in {g \in Frames : g.pc = "return"}}

\* C10: every record get_dir_info returns has oldest_mtime <= latest_mtime.
C10_OldestLeLatest ==
    \A r \in Returned : ~r.none => r.oldest_mtime <= r.latest_mtime

\* C10 happens: after a deletion, a record with distinct oldest and latest
\* times has been yielded
C10_Witness ==
    /\ Deleted >= 1
    /\ \E i \in 1..Len(yielded) :
         ~yielded[i].none /\ yielded[i].oldest_mtime < yielded[i].latest_mtime

\* the directories and files of the subtree rooted at n, n included
RECURSIVE Subtree(_)
Subtree(n) ==
    IF kind[n] # "dir" THEN {n}
    ELSE {n} \cup UNION {Subtree(c) : c \in {e \in Entries : Parent[e] = n /\ exists[e]}}

\* the regular files directly in directory n
FilesIn(n) == {c \in Entries : Parent[c] = n /\ exists[c] /\ kind[c] = "file"}

\* the tree holds directories and regular files only and nothing has changed it
StaticPlainTree == Deleted = 0 /\ \A n \in Nodes : kind[n] # "link"

\* C11: on a static tree of directories and regular files, the entries_count
\* get_dir_info returns for a directory is 1 plus the number of its regular
\* files plus the entries_count of its subdirectories, which is the number
\* of directories and files in its subtree, the directory included.
C11_EntriesCountStatic ==
    StaticPlainTree =>
        /\ \A f \in Frames :
             f.pc = "return" =>
                LET n == f.path[Len(f.path)]
                IN  /\ f.entries_count = 1 + Cardinality(FilesIn(n)) + f.sub_entries
                    /\ f.entries_count = Cardinality(Subtree(n))
        /\ \A i \in 1..Len(yielded) :
             ~yielded[i].none => yielded[i].entries_count = Cardinality(Subtree(yielded[i].path))

\* C11 happens: on a static tree, the record of directory 2, which holds a
\* file and a subdirectory with a file of its own, has been yielded
C11_Witness ==
    /\ StaticPlainTree /\ kind[4] = "dir"
    /\ \E i \in 1..Len(yielded) :
         ~yielded[i].none /\ yielded[i].path = 2 /\ yielded[i].entries_count = 4

\* C12: for a positive budget, the counter of calls in the current window
\* never exceeds the budget.
C12_CounterWithinBudget ==
    iops_budget >= 1 => io_calls_since_last_reset <= iops_budget

\* C13: after a call of do_iops_action whose wrapped operation ran, returning
\* or raising, the counter is one more than when the operation started.
C13_EveryCallCounted ==
    lastCheck.ran => io_calls_since_last_reset = lastCheck.calls + 1

\* the depth of node n below parent_dir
RECURSIVE Depth(_)
Depth(n) == IF n = 0 THEN 0 ELSE 1 + Depth(Parent[n])

\* the depth of the deepest directory of the tree
TreeDepth ==
    LET ds == {Depth(n) : n \in {m \in Nodes : kind[m] = "dir"}}
    IN  CHOOSE d \in ds : \A e \in ds : e <= d

\* C14: get_dir_info never nests deeper than the directory tree is deep, and
\* no directory is being scanned by two frames of the recursion at once.
C14_DepthBoundedByTree ==
    /\ Len(stack) <= TreeDepth
    /\ \A i, j \in 1..Len(stack) :
         (i < j /\ Resolve(stack[i].path, TRUE).err = "none"
                /\ Resolve(stack[j].path, TRUE).err = "none")
            => Resolve(stack[i].path, TRUE).node # Resolve(stack[j].path, TRUE).node

\* C15: while a top-level child is being scanned, the records of all the
\* children listed before it have been yielded, in listing order, and every
\* frame of get_dir_info and the latest filesystem call belong to that
\* child's scan; between two scans exactly the earlier children's records
\* have been yielded.
C15_ScansDoNotOverlap ==
    /\ \A i \in 1..Len(yielded) :
         ~yielded[i].none => i <= Len(gen.dirs) /\ yielded[i].path = gen.dirs[i]
    /\ gen.pc = "scan" => Len(yielded) = gen.idx - 1
    /\ stack # <<>> =>
         /\ gen.pc = "scan" /\ gen.idx <= Len(gen.dirs)
         /\ \A f \in Frames : f.path[1] = gen.dirs[gen.idx]
         /\ lastOp.path # <<>> /\ lastOp.path[1] = gen.dirs[gen.idx]

\* C15 happens: the second child's scan is two levels deep after the first
\* child's record was yielded
C15_Witness ==
    /\ Len(yielded) = 1 /\ ~yielded[1].none
    /\ Len(stack) = 2
    /\ Len(gen.dirs) = 3 /\ gen.idx = 2

Min(S) == CHOOSE x \in S : \A y \in S : x <= y

Max(S) == CHOOSE x \in S : \A y \in S : y <= x

C17_EveryCallRunsItsOperation ==
    lastCheck = NoCheck \/ lastCheck.ran

\* C18: when do_iops_action decides to wait, the wait it computes is positive
\* and at most one second plus one nanosecond, and do_iops_action raises
\* nothing of its own.
C18_WaitPositiveAndBounded ==
    /\ lastCheck.waited => (lastCheck.wait > 0 /\ lastCheck.wait <= ONE_S_IN_NS + 1)
    /\ lastRaise.op # "sleep"

====
